---------------------------- MODULE Spec2Model ----------------------------
(***************************************************************************)
(* Profile matcher: the eligibility engine of src/main.py.                 *)
(*                                                                         *)
(* The two stores (players, campaigns) are the SQLAlchemy tables of        *)
(* src/db.py.  A nullable column is modelled as a sequence of length at    *)
(* most one: <<>> is NULL / None, <<v>> is the value v.  A Python str is a *)
(* TLA+ string, except for the two date columns the matcher parses, which  *)
(* are sequences of one-character strings so that strptime can be modelled *)
(* by what it does.  A datetime is the tuple                               *)
(* <<year, month, day, hour, minute, second, microsecond>> (all UTC).      *)
(***************************************************************************)
EXTENDS Integers, Sequences, FiniteSets

(***************************************************************************)
(* Bounds of the model.                                                    *)
(***************************************************************************)
MaxInventory == 2
MaxCampaigns == 2

NULL == <<>>
Some(v) == <<v>>

(***************************************************************************)
(* datetime.strptime(s, "%Y-%m-%d %H:%M:%SZ")                              *)
(*                                                                         *)
(* CPython turns the format into a regular expression (matched ignoring    *)
(* case, whitespace in the format matching one or more whitespace          *)
(* characters), requires the whole string to be consumed and then builds   *)
(* the datetime, whose constructor validates the fields.  Every failure is *)
(* a ValueError.  Each directive below yields the set of <<end, value>>    *)
(* pairs with which it can match at position i.                            *)
(***************************************************************************)
Digits == <<"0", "1", "2", "3", "4", "5", "6", "7", "8", "9">>

IsDigit(ch) == \E k \in 1..10 : Digits[k] = ch

DigitVal(ch) == (CHOOSE k \in 1..10 : Digits[k] = ch) - 1

Whitespace == {" ", "\t", "\n"}

\* The characters of s at i .. i+n-1 exist and are all decimal digits.
DigitsAt(s, i, n) == i + n - 1 <= Len(s) /\ \A k \in i..(i + n - 1) : IsDigit(s[k])

\* The value of the one- or two-digit number at i.
Num1(s, i) == DigitVal(s[i])
Num2(s, i) == 10 * DigitVal(s[i]) + DigitVal(s[i + 1])

\* %Y: \d\d\d\d
DirectiveY(s, i) ==
    IF DigitsAt(s, i, 4)
    THEN {<<i + 4, 1000 * DigitVal(s[i]) + 100 * DigitVal(s[i + 1]) + Num2(s, i + 2)>>}
    ELSE {}

\* A directive of the shape  <two digits in lo2..hi2> | <one digit in lo1..9>.
TwoOrOneDigit(s, i, lo2, hi2, lo1) ==
    (IF DigitsAt(s, i, 2) /\ Num2(s, i) >= lo2 /\ Num2(s, i) <= hi2
     THEN {<<i + 2, Num2(s, i)>>} ELSE {})
    \cup
    (IF DigitsAt(s, i, 1) /\ Num1(s, i) >= lo1
     THEN {<<i + 1, Num1(s, i)>>} ELSE {})

\* %m: 1[0-2]|0[1-9]|[1-9]
DirectiveM(s, i) == TwoOrOneDigit(s, i, 1, 12, 1)

\* %d: 3[01]|[12]\d|0[1-9]|[1-9]| [1-9]
DirectiveD(s, i) ==
    TwoOrOneDigit(s, i, 1, 31, 1)
    \cup
    (IF i + 1 <= Len(s) /\ s[i] = " " /\ IsDigit(s[i + 1]) /\ Num1(s, i + 1) >= 1
     THEN {<<i + 2, Num1(s, i + 1)>>} ELSE {})

\* %H: 2[0-3]|[0-1]\d|\d
DirectiveH(s, i) == TwoOrOneDigit(s, i, 0, 23, 0)

\* %M: [0-5]\d|\d
DirectiveMin(s, i) == TwoOrOneDigit(s, i, 0, 59, 0)

\* %S: 6[0-1]|[0-5]\d|\d
DirectiveS(s, i) == TwoOrOneDigit(s, i, 0, 61, 0)

\* A literal character of the format, matched ignoring case.
Literal(s, i, chars) == IF i <= Len(s) /\ s[i] \in chars THEN {i + 1} ELSE {}

\* \s+ : the positions after one or more whitespace characters from i.
WhitespaceRun(s, i) ==
    {j \in (i + 1)..(Len(s) + 1) : \A k \in i..(j - 1) : s[k] \in Whitespace}

IsLeap(y) == (y % 4 = 0 /\ y % 100 # 0) \/ y % 400 = 0

DaysInMonth(y, m) ==
    IF m = 2 THEN (IF IsLeap(y) THEN 29 ELSE 28)
    ELSE IF m \in {4, 6, 9, 11} THEN 30 ELSE 31

\* The datetime constructor's range checks.
ValidDateTime(d) ==
    /\ d[1] >= 1
    /\ d[3] <= DaysInMonth(d[1], d[2])
    /\ d[6] <= 59

\* What one element of the format can match at position i: a directive yields
\* <<end, value>> pairs, a literal <<end>>.
Element(e, s, i) ==
    CASE e = "%Y" -> DirectiveY(s, i)
      [] e = "%m" -> DirectiveM(s, i)
      [] e = "%d" -> DirectiveD(s, i)
      [] e = "%H" -> DirectiveH(s, i)
      [] e = "%M" -> DirectiveMin(s, i)
      [] e = "%S" -> DirectiveS(s, i)
      [] e = " "  -> {<<j>> : j \in WhitespaceRun(s, i)}
      [] e = "Z"  -> {<<j>> : j \in Literal(s, i, {"Z", "z"})}
      [] OTHER    -> {<<j>> : j \in Literal(s, i, {e})}

\* "%Y-%m-%d %H:%M:%SZ"
Format == <<"%Y", "-", "%m", "-", "%d", " ", "%H", ":", "%M", ":", "%S", "Z">>

\* A partial match is <<next position, fields read so far>>: the partial
\* matches of the first k elements of the format.
RECURSIVE Matches(_, _)
Matches(s, k) ==
    IF k = 0 THEN {<<1, <<>> >>}
    ELSE UNION {{<<r[1], IF Len(r) = 2 THEN Append(m[2], r[2]) ELSE m[2]>>
                   : r \in Element(Format[k], s, m[1])}
                  : m \in Matches(s, k - 1)}

\* Every datetime the format's regular expression can read off the whole of s.
Parses(s) ==
    {Append(m[2], 0) : m \in {n \in Matches(s, Len(Format)) : n[1] = Len(s) + 1}}

\* NULL when strptime raises ValueError, Some(datetime) otherwise.
strptime(s) ==
    LET found == {d \in Parses(s) : ValidDateTime(d)}
    IN  IF found = {} THEN NULL ELSE Some(CHOOSE d \in found : TRUE)

\* a <= b on datetimes: lexicographic order of the seven fields.
RECURSIVE LexLeq(_, _, _)
LexLeq(a, b, k) ==
    IF k > Len(a) THEN TRUE
    ELSE IF a[k] < b[k] THEN TRUE
    ELSE IF a[k] > b[k] THEN FALSE
    ELSE LexLeq(a, b, k + 1)

DateTimeLeq(a, b) == LexLeq(a, b, 1)

(***************************************************************************)
(* The rows of the two stores (src/db.py) and the values the model draws   *)
(* them from.                                                              *)
(***************************************************************************)
MockPlayerId == "97983be2-98b7-11e7-90cf-082e5f28d836"

PlayerIds == {MockPlayerId, "unknown-player"}

Items == {"item_1", "item_4"}

Quantities == {0, 1, 2}

Countries == {"CA", "FR"}

Levels == {0, 1, 2, 3, 4}

\* inventory_items rows of one player, in the order the relationship yields them.
InventoryEntries == [name : Items, quantity : Quantities]

RECURSIVE SeqsUpTo(_, _)
SeqsUpTo(S, n) ==
    IF n = 0 THEN {<<>>}
    ELSE LET shorter == SeqsUpTo(S, n - 1)
         IN  shorter \cup {Append(q, e) : q \in {r \in shorter : Len(r) = n - 1}, e \in S}

\* "2025-04-25 00:00:00Z", "2025-06-25 00:00:00Z": the window create_mock_data writes.
MockStartDate ==
    <<"2", "0", "2", "5", "-", "0", "4", "-", "2", "5", " ",
      "0", "0", ":", "0", "0", ":", "0", "0", "Z">>

MockEndDate ==
    <<"2", "0", "2", "5", "-", "0", "6", "-", "2", "5", " ",
      "0", "0", ":", "0", "0", ":", "0", "0", "Z">>

\* "2025-05-20T00:00:00Z": ISO-8601, which the fixed format does not accept.
IsoDate ==
    <<"2", "0", "2", "5", "-", "0", "5", "-", "2", "0", "T",
      "0", "0", ":", "0", "0", ":", "0", "0", "Z">>

\* The players row (with its inventory and clan) create_mock_data means to write.
MockPlayerRow ==
    [player_id |-> MockPlayerId,
     level     |-> Some(3),
     country   |-> Some("CA"),
     inventory |-> <<[name |-> "cash", quantity |-> 123],
                     [name |-> "coins", quantity |-> 123],
                     [name |-> "item_1", quantity |-> 1],
                     [name |-> "item_34", quantity |-> 3],
                     [name |-> "item_55", quantity |-> 2]>>,
     clan      |-> Some([id |-> "123456", name |-> "Hello world clan"])]

\* The campaigns row (with its matcher rows) create_mock_data means to write.
MockCampaignRow ==
    [name                |-> "mycampaign",
     matcher_level_min   |-> 1,
     matcher_level_max   |-> 3,
     countries           |-> <<"US", "RO", "CA">>,
     items_has           |-> <<"item_1">>,
     items_does_not_have |-> <<"item_4">>,
     start_date          |-> MockStartDate,
     end_date            |-> MockEndDate,
     enabled             |-> TRUE]

\* campaigns.name is the primary key: the campaign at position i has the i-th name.
CampaignNames == <<"mycampaign", "campaign_2", "campaign_3", "campaign_4">>

\* Readings of datetime.now(timezone.utc): just before the mock window, its
\* first instant, inside it, its last instant, and one microsecond after it.
Instants ==
    {<<2025, 4, 24, 23, 59, 59, 999999>>,
     <<2025, 4, 25, 0, 0, 0, 0>>,
     <<2025, 5, 20, 0, 0, 0, 0>>,
     <<2025, 6, 25, 0, 0, 0, 0>>,
     <<2025, 6, 25, 0, 0, 0, 1>>}

(***************************************************************************)
(* State.                                                                  *)
(***************************************************************************)
VARIABLES
    players,            \* players table: player_id -> NULL or Some(row)
    campaigns,          \* campaigns table, in query order
    clock,              \* the wall clock (UTC)
    handler,            \* the endpoint being served, "none" when idle
    pc,                 \* position of the handler
    player_id,          \* get_client_config's path parameter
    profile,            \* get_client_config's local profile
    current_campaigns,  \* the list get_current_campaigns returned
    idx,                \* position of the for loop in current_campaigns
    active_campaigns,   \* get_client_config's local active_campaigns
    read_at,            \* the clock when each campaign of the loop was evaluated
    response,           \* what the endpoint answered
    mock_data_calls     \* whether create_mock_data has been called

vars ==
    <<players, campaigns, clock, handler, pc, player_id, profile,
      current_campaigns, idx, active_campaigns, read_at, response, mock_data_calls>>

stores == <<players, campaigns>>

locals == <<player_id, profile, current_campaigns, idx, active_campaigns, read_at>>

(***************************************************************************)
(* get_player_profile                                                      *)
(***************************************************************************)
\* PlayerSchema(**profile): level: int, country: str and clan: ClanSchema are
\* required and not Optional, so a None in any of them is a ValidationError.
PlayerSchemaAccepts(row) ==
    /\ row.level # NULL
    /\ row.country # NULL
    /\ row.clan # NULL

\* PlayerSchema(**profile).dict()
PlayerSchemaDict(row) ==
    [player_id        |-> row.player_id,
     active_campaigns |-> <<>>,
     level            |-> row.level[1],
     country          |-> row.country[1],
     inventory        |-> row.inventory,
     clan             |-> row.clan[1]]

\* Mutant: a row the schema rejects is reported like a missing player.
get_player_profile_rejected_as_missing(db_players, id) ==
    IF db_players[id] # NULL /\ PlayerSchemaAccepts(db_players[id][1])
    THEN [raised |-> FALSE, profile |-> Some(PlayerSchemaDict(db_players[id][1]))]
    ELSE [raised |-> FALSE, profile |-> NULL]

\* raised: the call ends in pydantic's ValidationError; otherwise profile is
\* NULL for the empty dict {} and Some(dict) for the assembled profile.
get_player_profile(db_players, id) ==
    IF db_players[id] = NULL
    THEN [raised |-> FALSE, profile |-> NULL]
    ELSE IF PlayerSchemaAccepts(db_players[id][1])
         THEN [raised |-> FALSE, profile |-> Some(PlayerSchemaDict(db_players[id][1]))]
         ELSE [raised |-> TRUE, profile |-> NULL]

(***************************************************************************)
(* get_current_campaigns                                                   *)
(***************************************************************************)
CampaignDict(row) ==
    [name       |-> row.name,
     matchers   |-> [level |-> [min |-> row.matcher_level_min,
                                max |-> row.matcher_level_max],
                     has   |-> [country |-> row.countries,
                                items   |-> row.items_has],
                     does_not_have |-> [items |-> row.items_does_not_have]],
     start_date |-> row.start_date,
     end_date   |-> row.end_date,
     enabled    |-> row.enabled]

get_current_campaigns(db_campaigns) ==
    [i \in 1..Len(db_campaigns) |-> CampaignDict(db_campaigns[i])]

(***************************************************************************)
(* profile_matches_campaign                                                *)
(***************************************************************************)
\* Mutant: the scan keeps going, so the last entry named name wins.
RECURSIVE get_item_quantity_last(_, _)
get_item_quantity_last(inv, name) ==
    IF inv = <<>> THEN 0
    ELSE IF inv[Len(inv)].name = name THEN inv[Len(inv)].quantity
    ELSE get_item_quantity_last(SubSeq(inv, 1, Len(inv) - 1), name)

\* The quantity of the first entry of inv named name, 0 when there is none.
RECURSIVE get_item_quantity(_, _)
get_item_quantity(inv, name) ==
    IF inv = <<>> THEN 0
    ELSE IF Head(inv).name = name THEN Head(inv).quantity
    ELSE get_item_quantity(Tail(inv), name)

\* Mutant: the upper bound is exclusive.
LevelMatcherExclusiveMax(p, c) ==
    LET level == IF "level" \in DOMAIN p THEN p.level ELSE 0
    IN  IF c.matchers.level.min <= level /\ level < c.matchers.level.max
        THEN "pass" ELSE "fail"

LevelMatcher(p, c) ==
    LET level == IF "level" \in DOMAIN p THEN p.level ELSE 0
    IN  IF c.matchers.level.min <= level /\ level <= c.matchers.level.max
        THEN "pass" ELSE "fail"

\* Mutant: an empty country list means no restriction.
CountryMatcherEmptyAllowsAll(p, c) ==
    IF \/ c.matchers.has.country = <<>>
       \/ \E i \in 1..Len(c.matchers.has.country) : c.matchers.has.country[i] = p.country
    THEN "pass" ELSE "fail"

CountryMatcher(p, c) ==
    IF \E i \in 1..Len(c.matchers.has.country) : c.matchers.has.country[i] = p.country
    THEN "pass" ELSE "fail"

HasItemsMatcher(p, c) ==
    IF \E i \in 1..Len(c.matchers.has.items) :
           get_item_quantity(p.inventory, c.matchers.has.items[i]) < 1
    THEN "fail" ELSE "pass"

DoesNotHaveMatcher(p, c) ==
    IF \E i \in 1..Len(c.matchers.does_not_have.items) :
           get_item_quantity(p.inventory, c.matchers.does_not_have.items[i]) > 0
    THEN "fail" ELSE "pass"

\* Both strptime calls come before the comparison; either may raise ValueError.
DateCheck(c, now) ==
    LET start == strptime(c.start_date)
        end   == strptime(c.end_date)
    IN  IF start = NULL \/ end = NULL THEN "raise"
        ELSE IF DateTimeLeq(start[1], now) /\ DateTimeLeq(now, end[1])
             THEN "pass" ELSE "fail"

EnabledCheck(c) == IF c.enabled THEN "pass" ELSE "fail"

Check(which, p, c, now) ==
    CASE which = "level"         -> LevelMatcher(p, c)
      [] which = "country"       -> CountryMatcher(p, c)
      [] which = "has"           -> HasItemsMatcher(p, c)
      [] which = "does_not_have" -> DoesNotHaveMatcher(p, c)
      [] which = "date"          -> DateCheck(c, now)
      [] which = "enabled"       -> EnabledCheck(c)

\* The checks in the order of the function body.
CheckOrder == <<"level", "country", "has", "does_not_have", "date", "enabled">>

\* The checks of order from the k-th on, each returning False on failure:
\* "True", "False", or "ValueError" when a strptime call raised.
RECURSIVE RunChecks(_, _, _, _, _)
RunChecks(order, k, p, c, now) ==
    IF k > Len(order) THEN "True"
    ELSE LET r == Check(order[k], p, c, now)
         IN  IF r = "fail" THEN "False"
             ELSE IF r = "raise" THEN "ValueError"
             ELSE RunChecks(order, k + 1, p, c, now)

profile_matches_campaign(p, c, now) == RunChecks(CheckOrder, 1, p, c, now)

(***************************************************************************)
(* The endpoints.  A request is served from handler = "none" to            *)
(* pc = "responded"; EndRequest then drops the handler's locals (and       *)
(* get_db closes the session).  The for loop of get_client_config takes    *)
(* one step per campaign, so the clock may advance between two campaigns.  *)
(***************************************************************************)
Response(status, detail, body) == [status |-> status, detail |-> detail, body |-> body]

NoLocals ==
    /\ player_id = NULL
    /\ profile = NULL
    /\ current_campaigns = <<>>
    /\ idx = 0
    /\ active_campaigns = <<>>
    /\ read_at = <<>>

\* get_client_config up to the for loop: the profile lookup, the 404, and the
\* campaign query.
GetClientConfig(id) ==
    /\ handler = "none"
    /\ handler' = "get_client_config"
    /\ player_id' = Some(id)
    /\ LET got == get_player_profile(players, id)
       IN  IF got.raised
           THEN /\ response' = Some(Response(500, "ValidationError", NULL))
                /\ pc' = "responded"
                /\ UNCHANGED <<profile, current_campaigns, idx>>
           ELSE IF got.profile = NULL
           THEN /\ response' = Some(Response(404, "Player not found", NULL))
                /\ pc' = "responded"
                /\ UNCHANGED <<profile, current_campaigns, idx>>
           ELSE /\ profile' = got.profile
                /\ current_campaigns' = get_current_campaigns(campaigns)
                /\ idx' = 1
                /\ pc' = "matching"
                /\ UNCHANGED response
    /\ UNCHANGED <<players, campaigns, clock, active_campaigns, read_at, mock_data_calls>>

\* One iteration of the for loop: profile_matches_campaign on the next campaign.
MatchCampaign ==
    /\ pc = "matching"
    /\ idx <= Len(current_campaigns)
    /\ read_at' = Append(read_at, clock)
    /\ LET campaign == current_campaigns[idx]
           matches  == profile_matches_campaign(profile[1], campaign, clock)
       IN  IF matches = "ValueError"
           THEN /\ response' = Some(Response(500, "ValueError", NULL))
                /\ pc' = "responded"
                /\ UNCHANGED <<idx, active_campaigns>>
           ELSE /\ active_campaigns' =
                       IF matches = "True"
                       THEN Append(active_campaigns, campaign.name)
                       ELSE active_campaigns
                /\ idx' = idx + 1
                /\ UNCHANGED <<pc, response>>
    /\ UNCHANGED <<players, campaigns, clock, handler, player_id, profile,
                   current_campaigns, mock_data_calls>>

\* Mutant: no copy is made, so the result is written to the profile itself.
ReturnProfileWithoutCopy ==
    /\ pc = "matching"
    /\ idx > Len(current_campaigns)
    /\ profile' = Some([profile[1] EXCEPT !.active_campaigns = active_campaigns])
    /\ response' = Some(Response(200, "", profile'))
    /\ pc' = "responded"
    /\ UNCHANGED <<players, campaigns, clock, handler, player_id, current_campaigns,
                   idx, active_campaigns, read_at, mock_data_calls>>

\* After the loop: the copy of the profile with active_campaigns set is returned.
ReturnProfile ==
    /\ pc = "matching"
    /\ idx > Len(current_campaigns)
    /\ response' =
           Some(Response(200, "",
                         Some([profile[1] EXCEPT !.active_campaigns = active_campaigns])))
    /\ pc' = "responded"
    /\ UNCHANGED <<players, campaigns, clock, handler, locals, mock_data_calls>>

\* create_mock_data: the eight tables are emptied and the deletion committed;
\* then PlayerSchema(...) is built without active_campaigns, a required field
\* of the schema (no default), which raises ValidationError before any row is
\* added.
CreateMockData ==
    /\ handler = "none"
    /\ handler' = "create_mock_data"
    /\ players' = [id \in PlayerIds |-> NULL]
    /\ campaigns' = <<>>
    /\ response' = Some(Response(500, "ValidationError", NULL))
    /\ pc' = "responded"
    /\ mock_data_calls' = TRUE
    /\ UNCHANGED <<clock, locals>>

\* The response is sent; nothing of the request is kept.
EndRequest ==
    /\ pc = "responded"
    /\ pc' = "idle"
    /\ handler' = "none"
    /\ response' = NULL
    /\ player_id' = NULL
    /\ profile' = NULL
    /\ current_campaigns' = <<>>
    /\ idx' = 0
    /\ active_campaigns' = <<>>
    /\ read_at' = <<>>
    /\ UNCHANGED <<players, campaigns, clock, mock_data_calls>>

\* Time passes.
Tick ==
    /\ \E t \in Instants : t # clock /\ DateTimeLeq(clock, t) /\ clock' = t
    /\ UNCHANGED <<players, campaigns, handler, pc, response, locals, mock_data_calls>>

Next ==
    \/ \E id \in PlayerIds : GetClientConfig(id)
    \/ MatchCampaign
    \/ ReturnProfile
    \/ CreateMockData
    \/ EndRequest
    \/ Tick

(***************************************************************************)
(* Initial states.  No request is being served; the stores hold what any   *)
(* earlier writer of the database left in them.                            *)
(***************************************************************************)
Idle ==
    /\ handler = "none"
    /\ pc = "idle"
    /\ response = NULL
    /\ NoLocals

\* The mock player, and the same row with one column NULL, with no inventory
\* rows, or from a country outside the mock campaign's list.
SystemPlayerRows ==
    {MockPlayerRow,
     [MockPlayerRow EXCEPT !.country = NULL],
     [MockPlayerRow EXCEPT !.level = NULL],
     [MockPlayerRow EXCEPT !.clan = NULL],
     [MockPlayerRow EXCEPT !.inventory = <<>>],
     [MockPlayerRow EXCEPT !.country = Some("FR")]}

\* The mock campaign under the i-th name, with either date possibly in
\* ISO-8601 and either value of enabled.
SystemCampaignRows(i) ==
    {[MockCampaignRow EXCEPT !.name = CampaignNames[i],
                             !.start_date = w[1], !.end_date = w[2], !.enabled = b]
       : w \in {<<MockStartDate, MockEndDate>>, <<IsoDate, MockEndDate>>,
                <<MockStartDate, IsoDate>>},
         b \in BOOLEAN}

\* Tables of at most n campaigns, the i-th drawn from SystemCampaignRows(i).
RECURSIVE SystemCampaignTables(_)
SystemCampaignTables(n) ==
    IF n = 0 THEN {<<>>}
    ELSE LET shorter == SystemCampaignTables(n - 1)
         IN  shorter \cup
             {Append(q, r) : q \in {s \in shorter : Len(s) = n - 1},
                             r \in SystemCampaignRows(n)}

SystemStores ==
    /\ players \in {[id \in PlayerIds |-> IF id = MockPlayerId THEN r ELSE NULL]
                      : r \in {NULL} \cup {Some(row) : row \in SystemPlayerRows}}
    /\ campaigns \in SystemCampaignTables(MaxCampaigns)

\* One player and one campaign with the mock window, each drawn from every
\* combination of the values the matchers distinguish.
MatcherPlayerRows ==
    {[MockPlayerRow EXCEPT !.level = Some(l), !.country = Some(co), !.inventory = inv]
       : l \in Levels, co \in Countries, inv \in SeqsUpTo(InventoryEntries, MaxInventory)}

MatcherCampaignRows ==
    {[MockCampaignRow EXCEPT !.countries = cs, !.items_has = has,
                             !.items_does_not_have = hasnt, !.enabled = b]
       : cs \in {<<>>, MockCampaignRow.countries},
         has \in {<<>>, MockCampaignRow.items_has},
         hasnt \in {<<>>, MockCampaignRow.items_does_not_have},
         b \in BOOLEAN}

MatcherStores ==
    /\ players \in {[id \in PlayerIds |-> IF id = MockPlayerId THEN Some(row) ELSE NULL]
                      : row \in MatcherPlayerRows}
    /\ campaigns \in {<<row>> : row \in MatcherCampaignRows}

\* One player with the mock inventory and any level and country, and one
\* campaign with any country list, either value of enabled and any window:
\* the mock one, one with start > end, one with either date in ISO-8601.
WindowPlayerRows ==
    {[MockPlayerRow EXCEPT !.level = Some(l), !.country = Some(co)]
       : l \in Levels, co \in Countries}

WindowCampaignRows ==
    {[MockCampaignRow EXCEPT !.countries = cs, !.start_date = w[1], !.end_date = w[2],
                             !.enabled = b]
       : cs \in {<<>>, MockCampaignRow.countries},
         w \in {<<MockStartDate, MockEndDate>>, <<MockEndDate, MockStartDate>>,
                <<IsoDate, MockEndDate>>, <<MockStartDate, IsoDate>>},
         b \in BOOLEAN}

WindowStores ==
    /\ players \in {[id \in PlayerIds |-> IF id = MockPlayerId THEN Some(row) ELSE NULL]
                      : row \in WindowPlayerRows}
    /\ campaigns \in {<<row>> : row \in WindowCampaignRows}

Init ==
    /\ Idle
    /\ mock_data_calls = FALSE
    /\ clock \in Instants
    /\ (SystemStores \/ MatcherStores \/ WindowStores)

Spec == Init /\ [][Next]_vars

(***************************************************************************)
(* Vocabulary of the properties.                                           *)
(***************************************************************************)
Range(q) == {q[i] : i \in 1..Len(q)}

\* get_client_config has answered.
Answered == handler = "get_client_config" /\ pc = "responded"

\* get_client_config has answered 200 with the profile.
Returned == Answered /\ response[1].status = 200

\* The campaigns of the loop profile_matches_campaign has returned for (it
\* has not raised): those before idx.
Evaluated == IF handler = "get_client_config" /\ profile # NULL THEN 1..(idx - 1) ELSE {}

\* What strptime makes of each date string of the model.
Parsed == [s \in {MockStartDate, MockEndDate, IsoDate} |-> strptime(s)]

WellFormed(c) == Parsed[c.start_date] # NULL /\ Parsed[c.end_date] # NULL

Positions(inv, name) == {i \in 1..Len(inv) : inv[i].name = name}

\* The quantity of the first ("first") or last ("last") entry of the
\* inventory under a name, 0 when the name is absent; with unique names, the
\* quantity of its entry.
Quantity(which, inv, name) ==
    LET at == Positions(inv, name)
    IN  IF at = {} THEN 0
        ELSE IF which = "first"
        THEN inv[CHOOSE i \in at : \A j \in at : i <= j].quantity
        ELSE inv[CHOOSE i \in at : \A j \in at : i >= j].quantity

LevelClause(p, c) == c.matchers.level.min <= p.level /\ p.level <= c.matchers.level.max

CountryClause(p, c) == p.country \in Range(c.matchers.has.country)

RequiredItemsClause(which, p, c) ==
    \A item \in Range(c.matchers.has.items) : Quantity(which, p.inventory, item) >= 1

ForbiddenItemsClause(which, p, c) ==
    \A item \in Range(c.matchers.does_not_have.items) :
      Quantity(which, p.inventory, item) <= 0

\* For a campaign with well-formed dates.
TemporalClause(c, now) ==
    /\ DateTimeLeq(Parsed[c.start_date][1], now)
    /\ DateTimeLeq(now, Parsed[c.end_date][1])

EnabledClause(c) == c.enabled = TRUE

SixClauses(p, c, now) ==
    /\ LevelClause(p, c)
    /\ CountryClause(p, c)
    /\ RequiredItemsClause("first", p, c)
    /\ ForbiddenItemsClause("first", p, c)
    /\ TemporalClause(c, now)
    /\ EnabledClause(c)

\* The names, in table order, of the campaigns of cs at the positions K from
\* the k-th on.
RECURSIVE NamesFrom(_, _, _)
NamesFrom(cs, k, K) ==
    IF k > Len(cs) THEN <<>>
    ELSE IF k \in K THEN <<cs[k].name>> \o NamesFrom(cs, k + 1, K)
    ELSE NamesFrom(cs, k + 1, K)

NamesAt(cs, K) == NamesFrom(cs, 1, K)

\* Once the loop has run over every stored campaign: the names of the stored
\* campaigns with well-formed dates whose six clauses held when evaluated.
SatisfiedCampaigns ==
    LET cs == get_current_campaigns(campaigns)
    IN  NamesAt(cs, {k \in 1..Len(cs) : /\ WellFormed(cs[k])
                                        /\ SixClauses(profile[1], cs[k], read_at[k])})

(***************************************************************************)
(* C1.  For a campaign with well-formed dates, profile_matches_campaign    *)
(* returns True exactly when the six clauses hold at the instant it reads  *)
(* (level within [min, max], country in the list, every 'has' item with    *)
(* quantity >= 1, every 'does_not_have' item with quantity <= 0,           *)
(* start <= now <= end, enabled); and the active_campaigns of a 200        *)
(* response are exactly the names of the stored campaigns for which this   *)
(* holds.                                                                  *)
(***************************************************************************)
C1_SixClauses ==
    /\ \A k \in Evaluated :
         WellFormed(current_campaigns[k]) =>
           (current_campaigns[k].name \in Range(active_campaigns)
              <=> SixClauses(profile[1], current_campaigns[k], read_at[k]))
    /\ Returned =>
         response[1].body[1].active_campaigns = SatisfiedCampaigns

\* A 200 response that lists a campaign evaluated at the last instant of its
\* window, the level at the upper bound of its range.
C1_Witness ==
    /\ Returned
    /\ response[1].body[1].active_campaigns = <<"mycampaign">>
    /\ response[1].body[1].level = 3
    /\ read_at = <<Parsed[MockEndDate][1]>>

(***************************************************************************)
(* C2.  A campaign whose start_date or end_date does not parse is left out *)
(* of the result and the pass does not fail: once the profile is found and *)
(* valid the request answers 200, with every well-formed campaign the      *)
(* profile satisfies in active_campaigns.                                  *)
(***************************************************************************)
C2_MalformedWindowIsolated ==
    (Answered /\ profile # NULL) =>
      /\ response[1].status = 200
      /\ response[1].body[1].active_campaigns = SatisfiedCampaigns

(***************************************************************************)
(* C3.  get_client_config answers 404 "Player not found", with no profile, *)
(* exactly when the players table has no row for the id: a missing player  *)
(* never gets a profile, and a stored player never gets the 404, whatever  *)
(* the campaigns table holds.                                              *)
(***************************************************************************)
C3_NotFoundIffNoRecord ==
    Answered =>
      /\ response[1].status = 404 <=> players[player_id[1]] = NULL
      /\ response[1].status = 404 =>
           response[1].detail = "Player not found" /\ response[1].body = NULL
      /\ response[1].body # NULL => players[player_id[1]] # NULL

\* A 404 for the mock player id while the campaigns table is not empty.
C3_Witness ==
    /\ Answered
    /\ response[1].status = 404
    /\ player_id = Some(MockPlayerId)
    /\ campaigns # <<>>

(***************************************************************************)
(* C4.  The instant is read once per request: the active_campaigns of a    *)
(* 200 response are those obtained by evaluating every campaign at one     *)
(* single instant, even when the clock advances during the loop.  (The     *)
(* dates of the model's campaigns are the first and last instant of the    *)
(* mock window, so every instant is equivalent to one of Instants.)        *)
(***************************************************************************)
C4_SingleInstant ==
    Returned =>
      \E t \in Instants :
        response[1].body[1].active_campaigns =
          NamesAt(current_campaigns,
                  {k \in 1..Len(current_campaigns) :
                     profile_matches_campaign(profile[1], current_campaigns[k], t) = "True"})

(***************************************************************************)
(* C5.  With several inventory entries under one name, the required-items  *)
(* and forbidden-items clauses use one entry's quantity: whenever the      *)
(* other four clauses hold for an evaluated campaign, it is active exactly *)
(* when every 'has' item has that quantity >= 1 and every 'does_not_have'  *)
(* item has it <= 0.  The claim says the last entry; the code uses the     *)
(* first.                                                                  *)
(***************************************************************************)
ItemClausesDecide(which) ==
    \A k \in Evaluated :
      LET c == current_campaigns[k]
          p == profile[1]
      IN  (/\ WellFormed(c)
           /\ LevelClause(p, c)
           /\ CountryClause(p, c)
           /\ TemporalClause(c, read_at[k])
           /\ EnabledClause(c))
          => (c.name \in Range(active_campaigns)
                <=> RequiredItemsClause(which, p, c) /\ ForbiddenItemsClause(which, p, c))

\* C5 as stated: the item clauses use the quantity of the last entry under
\* the name (last-seen wins).
C5_LastEntryWins == ItemClausesDecide("last")

\* C5 as amended: the item clauses use the quantity of the first entry under
\* the name (first-seen wins), not the last and not the sum.
C5_FirstEntryWins == ItemClausesDecide("first")

\* A campaign requiring item_1 is active for an inventory whose first item_1
\* entry has quantity 1 and whose last has quantity 0.
C5_Witness ==
    /\ Returned
    /\ profile[1].inventory =
         <<[name |-> "item_1", quantity |-> 1], [name |-> "item_1", quantity |-> 0]>>
    /\ current_campaigns[1].matchers.has.items = <<"item_1">>
    /\ response[1].body[1].active_campaigns = <<"mycampaign">>

(***************************************************************************)
(* C6.  A campaign whose country list is empty is never in the result:     *)
(* profile_matches_campaign never returns True for it, whatever the        *)
(* profile, the other matchers, the window, enabled and the instant.       *)
(***************************************************************************)
C6_EmptyCountryListNeverMatches ==
    /\ \A k \in Evaluated :
         current_campaigns[k].matchers.has.country = <<>>
           => current_campaigns[k].name \notin Range(active_campaigns)
    /\ Returned =>
         \A k \in 1..Len(campaigns) :
           campaigns[k].countries = <<>>
             => campaigns[k].name \notin Range(response[1].body[1].active_campaigns)

\* A 200 response that leaves out a campaign with an empty country list all
\* of whose other clauses hold.
C6_Witness ==
    /\ Returned
    /\ Len(current_campaigns) = 1
    /\ current_campaigns[1].matchers.has.country = <<>>
    /\ LevelClause(profile[1], current_campaigns[1])
    /\ RequiredItemsClause("first", profile[1], current_campaigns[1])
    /\ ForbiddenItemsClause("first", profile[1], current_campaigns[1])
    /\ WellFormed(current_campaigns[1])
    /\ TemporalClause(current_campaigns[1], read_at[1])
    /\ EnabledClause(current_campaigns[1])
    /\ response[1].body[1].active_campaigns = <<>>

(***************************************************************************)
(* C7.  After one or more create_mock_data calls, get_client_config for    *)
(* the mock player id answers 200, echoes the id and has active_campaigns  *)
(* equal to ["mycampaign"], at whatever instant the request is made.       *)
(***************************************************************************)
C7_MockPlayerGetsMyCampaign ==
    (mock_data_calls /\ Answered /\ player_id = Some(MockPlayerId)) =>
      /\ response[1].status = 200
      /\ response[1].body[1].player_id = MockPlayerId
      /\ response[1].body[1].active_campaigns = <<"mycampaign">>

(***************************************************************************)
(* C8.  The only errors of a request are the not-found outcome and a       *)
(* malformed campaign window: for every stored player row, also one with   *)
(* NULL country, NULL level, no inventory rows or no clan, assembling the  *)
(* profile ends with a value.                                              *)
(***************************************************************************)
C8_NoOtherError ==
    Answered =>
      \/ response[1].status = 200
      \/ response[1].status = 404 /\ response[1].detail = "Player not found"
      \/ response[1].status = 500 /\ response[1].detail = "ValueError"

(***************************************************************************)
(* C9.  The outcome of evaluating one campaign does not depend on the      *)
(* order of the six checks: for the profile of the request, every campaign *)
(* of the loop (also one with malformed dates or start > end) and the      *)
(* instant it was evaluated at, every order of the checks gives the        *)
(* outcome the code's order gives.                                         *)
(***************************************************************************)
CheckOrders ==
    {o \in [1..Len(CheckOrder) -> Range(CheckOrder)] : Range(o) = Range(CheckOrder)}

\* C9: every order of the six checks gives the outcome of the code's order.
C9_OrderIndependent ==
    (handler = "get_client_config" /\ profile # NULL) =>
      \A k \in 1..Len(read_at) : \A o \in CheckOrders :
        RunChecks(o, 1, profile[1], current_campaigns[k], read_at[k])
          = profile_matches_campaign(profile[1], current_campaigns[k], read_at[k])

(***************************************************************************)
(* C10.  get_client_config changes neither store on any outcome, its       *)
(* result goes only to the returned copy (the local profile keeps its      *)
(* empty active_campaigns), and nothing of the request is kept once it is  *)
(* answered, so a later request with the same stores at the same instant   *)
(* gets the same result.                                                   *)
(***************************************************************************)
C10_StoresUnchanged ==
    [][(handler = "get_client_config" \/ handler' = "get_client_config") =>
         /\ players' = players
         /\ campaigns' = campaigns
         /\ profile' # NULL => profile'[1].active_campaigns = <<>>
         /\ handler' = "none" => (response' = NULL /\ NoLocals')]_vars

\* A 200 response naming a campaign, with the player and the campaign
\* still stored as they were read.
C10_Witness ==
    /\ Returned
    /\ response[1].body[1].active_campaigns # <<>>
    /\ players[player_id[1]] # NULL
    /\ get_current_campaigns(campaigns) = current_campaigns
    /\ get_player_profile(players, player_id[1]).profile = profile

=============================================================================
